---- MODULE Spec2Model ----
(***************************************************************************)
(* A model of the glTF transformation pipeline of icosa-gallery:           *)
(* django/icosa/helpers/gltf_transform.py.                                 *)
(*                                                                         *)
(*   validate_operations      the catalog check of an operation list       *)
(*   transform_gltf_file      the executor: runs the external engine       *)
(*   transform_asset_formats  the per-asset loop: stage, run, delete, write*)
(*                                                                         *)
(* Durable storage is a map from stored names to files; the database rows  *)
(* of Format and Resource are the variables formats and resources.  Every  *)
(* storage call and the engine run is one step of an invocation, so that   *)
(* the order of the steps and the states between them can be observed.     *)
(***************************************************************************)
EXTENDS Integers, Sequences, FiniteSets, TLC

\* ------------------------------------------------------------------ bounds

\* The longest list of format variants an asset has.
MaxFormats == 2
\* The longest operation list passed to a direct call of transform_gltf_file.
MaxOps == 2
\* How many times the storage backend can be asked for an alternative name.
MaxSuffix == 1

\* ------------------------------------------------------------- python values

\* A file of a filesystem or of durable storage: absent, or present with bytes.
NoFile == [exists |-> FALSE, bytes |-> << >>]

FileOf(b) == [exists |-> TRUE, bytes |-> b]

\* The bytes every stored resource file starts with.
OriginalBytes == <<1, 1>>

\* What the engine can write to its output path: fewer bytes than the
\* original file has, or more.
EngineOutputs == { <<2>>, <<2, 2, 2>> }

\* The byte strings of the model.
Contents == { << >>, OriginalBytes } \cup EngineOutputs

\* os.path.getsize
GetSize(file) == Len(file.bytes)

\* The name of a FieldFile: None, "", or a path in storage, upload directory,
\* file stem and the suffixes the storage backend appended to the stem.
NameNone == [dir |-> "None", stem |-> "", suffix |-> 0]

NameEmpty == [dir |-> "", stem |-> "", suffix |-> 0]

Resources == {"r1", "r2"}

NoResource == "None"

\* The directory the Resource model uploads the files of one resource to.
UploadDir(r) == r

StoredName(r, n) == [dir |-> UploadDir(r), stem |-> "model.glb", suffix |-> n]

Names == { StoredName(r, n) : r \in Resources, n \in 0..MaxSuffix }

\* A test for None only: a file field with the empty name counts as set.
FileIsSetUnlessNone(name) == name # NameNone

\* FieldFile.__bool__: `if not resource.file`.
FileIsSet(name) == name \notin {NameNone, NameEmpty}

\* os.path.basename of a stored name: the part after the directory.
Basename(name) == [stem |-> name.stem, suffix |-> name.suffix]

\* FileField.generate_filename: the upload directory of the resource joined
\* with the given file name.
GenerateFilename(r, base) == [dir |-> UploadDir(r), stem |-> base.stem, suffix |-> base.suffix]

\* ------------------------------------------------------------- the executor

AVAILABLE_OPERATIONS == {"dedup", "prune", "resample", "quantize", "weld", "flatten", "join", "instance", "metalrough", "partition", "unweld", "simplify", "unlit", "draco", "textureCompress", "meshopt"}

\* The operation names calls are made with: two of the allow-list, two outside
\* (membership in the allow-list is case-sensitive).
OpNames == {"dedup", "prune", "bogus", "Dedup"}

\* Python None for the options and format_types arguments.
NoOptions == [given |-> FALSE, items |-> {}]

OptionsOf(items) == [given |-> TRUE, items |-> items]

\* The options values of the model: None, the empty dict, a dict of one item.
OptionValues == {NoOptions, OptionsOf({}), OptionsOf({"ratio"})}

\* `if options:` is false for None and for the empty dict.
OptionsTruthy(options) == options.given /\ options.items # {}

RECURSIVE SeqsUpTo(_, _)
\* The sequences over S of length at most n.
SeqsUpTo(S, n) == IF n = 0 THEN { << >> } ELSE LET shorter == SeqsUpTo(S, n - 1) IN shorter \cup { Append(q, x) : q \in {t \in shorter : Len(t) = n - 1}, x \in S }

\* [op for op in operations if op not in AVAILABLE_OPERATIONS]
InvalidOps(operations) == SelectSeq(operations, LAMBDA op : op \notin AVAILABLE_OPERATIONS)

RECURSIVE JoinComma(_)
\* ",".join(operations)
JoinComma(operations) == IF Len(operations) = 0 THEN << >> ELSE IF Len(operations) = 1 THEN <<operations[1]>> ELSE <<operations[1], ",">> \o JoinComma(Tail(operations))

RECURSIVE JoinCommaSpace(_)
\* ", ".join(invalid_ops)
JoinCommaSpace(names) == IF Len(names) = 0 THEN << >> ELSE IF Len(names) = 1 THEN <<names[1]>> ELSE <<names[1], ", ">> \o JoinCommaSpace(Tail(names))

\* Python None as the error message of validate_operations.
NoMessage == << >>

\* A validate_operations without the test for the empty list.
ValidateOperationsAcceptsEmpty(operations) ==
    IF InvalidOps(operations) # << >> THEN [valid |-> FALSE, message |-> <<"Invalid operations: ">> \o JoinCommaSpace(InvalidOps(operations))]
    ELSE [valid |-> TRUE, message |-> NoMessage]

\* validate_operations(operations): the tuple (is_valid, error_message).
ValidateOperations(operations) ==
    IF operations = << >> THEN [valid |-> FALSE, message |-> <<"No operations specified">>]
    ELSE IF InvalidOps(operations) # << >> THEN [valid |-> FALSE, message |-> <<"Invalid operations: ">> \o JoinCommaSpace(InvalidOps(operations))]
    ELSE [valid |-> TRUE, message |-> NoMessage]

\* The command line handed to subprocess.run.
Command(operations, options) == <<"node", "gltf_transform.js", "input.glb", "output.glb">> \o JoinComma(operations) \o (IF OptionsTruthy(options) THEN <<"json.dumps(options)">> ELSE << >>)

\* What one run of the external process can do: not start at all (the node
\* executable is missing), or exit with a code, having written to stdout and
\* stderr and left a file, or none, at the output path.
NoProc == [started |-> FALSE, code |-> 0, stdout |-> "", stderr |-> "", output |-> NoFile]

ProcOutcomes ==
    { NoProc }
    \cup { [started |-> TRUE, code |-> 1, stdout |-> "", stderr |-> "unknown operation", output |-> NoFile] }
    \cup { [started |-> TRUE, code |-> 2, stdout |-> "partial", stderr |-> "out of memory", output |-> FileOf(<< >>)] }
    \cup { [started |-> TRUE, code |-> 0, stdout |-> "engine stdout", stderr |-> "", output |-> NoFile] }
    \cup { [started |-> TRUE, code |-> 0, stdout |-> "engine stdout", stderr |-> "", output |-> FileOf(b)] : b \in EngineOutputs }

NoException == [type |-> "None", msg |-> << >>]

Exc(type, msg) == [type |-> type, msg |-> msg]

NoResult == [success |-> FALSE, message |-> <<"no result">>]

\* ---- Python numbers.  A natural number of any size is the sequence of its
\* binary digits, lowest first; a float is an IEEE 754 double: sign, and the
\* 53 digits of the significand `man` as a natural number times 2^exp.

\* The k-th digit, 0 beyond the last one.
Bit(a, k) == IF k \in 1..Len(a) THEN a[k] ELSE 0

\* Leading zero digits removed.
Trim(bits) == LET ones == {k \in 1..Len(bits) : bits[k] = 1} IN IF ones = {} THEN << >> ELSE SubSeq(bits, 1, CHOOSE m \in ones : \A k \in ones : k <= m)

\* The digits of an int of at most 31 bits.
BitsOf(n) == Trim([k \in 1..31 |-> (n \div 2 ^ (k - 1)) % 2])

Zeros(n) == [k \in 1..n |-> 0]

\* A carry enters digit k when a lower digit generates one and every digit
\* in between passes it on.
CarryInto(a, b, k) == \E j \in 1..(k - 1) : Bit(a, j) + Bit(b, j) = 2 /\ \A m \in (j + 1)..(k - 1) : Bit(a, m) + Bit(b, m) >= 1

AddBits(a, b) == Trim([k \in 1..((IF Len(a) > Len(b) THEN Len(a) ELSE Len(b)) + 1) |-> (Bit(a, k) + Bit(b, k) + (IF CarryInto(a, b, k) THEN 1 ELSE 0)) % 2])

RECURSIVE MulBits(_, _)
\* The product of a natural number and a small one.
MulBits(a, k) == IF k = 0 \/ a = << >> THEN << >> ELSE LET half == MulBits(a, k \div 2) IN AddBits(IF k % 2 = 1 THEN a ELSE << >>, IF half = << >> THEN half ELSE <<0>> \o half)

\* a <= b
LessEqBits(a, b) == \/ \A k \in 1..(Len(a) + Len(b)) : Bit(a, k) = Bit(b, k)
                    \/ \E k \in 1..Len(b) : Bit(a, k) < Bit(b, k) /\ \A m \in (k + 1)..(Len(a) + Len(b)) : Bit(a, m) = Bit(b, m)

Abs(n) == IF n < 0 THEN -n ELSE n

\* The digits of the significand of a double.
Precision == 53

\* The fractional digits a quotient is developed to before it is rounded:
\* enough for 55 significant digits of any quotient above 2^-17.
FractionBits == Precision + 20

FloatZero == [type |-> "float", sign |-> 0, exp |-> 0, man |-> << >>]

\* The Python int 0.
IntZero == [type |-> "int", sign |-> 0, exp |-> 0, man |-> << >>]

\* The double nearest to (-1)^sign * bits * 2^exp (* a little more, if
\* sticky), ties going to the even significand.
RoundBits(sign, bits, exp, sticky) ==
    LET x == Trim(bits)
        L == Len(x)
    IN  IF L = 0 THEN FloatZero
        ELSE IF L <= Precision THEN [type |-> "float", sign |-> sign, exp |-> exp - (Precision - L), man |-> Zeros(Precision - L) \o x]
        ELSE LET d == L - Precision
                 kept == SubSeq(x, d + 1, L)
                 rest == sticky \/ \E k \in 1..(d - 1) : x[k] = 1
                 up == x[d] = 1 /\ (rest \/ kept[1] = 1)
                 inc == IF up THEN AddBits(kept, <<1>>) ELSE kept
             IN  IF Len(inc) > Precision
                 THEN [type |-> "float", sign |-> sign, exp |-> exp + d + 1, man |-> Tail(inc)]
                 ELSE [type |-> "float", sign |-> sign, exp |-> exp + d, man |-> inc]

RECURSIVE Pow2Mod(_, _)
\* 2^j mod d, by repeated squaring; d below 2^15.
Pow2Mod(j, d) == IF j = 0 THEN 1 % d ELSE LET h == Pow2Mod(j \div 2, d) IN (h * h * (IF j % 2 = 1 THEN 2 ELSE 1)) % d

\* Long division of n by d, 0 <= n: the remainder left after j fractional
\* digits of the quotient.
DivRem(n, d, j) == ((n % d) * Pow2Mod(j, d)) % d

\* The digits of the quotient n / d developed to k fractional digits: the
\* lowest digit first, the digits of the integer part last.
DivBits(n, d, k) == [p \in 1..k |-> IF 2 * DivRem(n, d, k - p) >= d THEN 1 ELSE 0] \o BitsOf(n \div d)

\* n / d on two ints, d > 0: the double nearest to the quotient.
TrueDiv(n, d) == RoundBits(IF n < 0 THEN 1 ELSE 0, DivBits(Abs(n), d, FractionBits), -FractionBits, DivRem(Abs(n), d, FractionBits) # 0)

\* f * k on a float and an int k >= 0 that a double holds exactly.
FloatTimesInt(f, k) == RoundBits(f.sign, MulBits(f.man, k), f.exp, FALSE)

\* float(n)
FloatOfInt(n) == RoundBits(IF n < 0 THEN 1 ELSE 0, BitsOf(Abs(n)), 0, FALSE)

\* The file sizes of the model.
Sizes == {Len(b) : b \in Contents}

\* ((input_size - output_size) / input_size * 100) if input_size > 0 else 0
FloatReduction(input_size, output_size) == IF input_size > 0 THEN FloatTimesInt(TrueDiv(input_size - output_size, input_size), 100) ELSE IntZero

\* The subtraction the other way round.
GrowthTable == { [input_size |-> i, output_size |-> o, reduction_percent |-> FloatReduction(i, 2 * i - o)] : i \in Sizes, o \in Sizes }

ReductionPercentOfGrowth(input_size, output_size) == (CHOOSE t \in GrowthTable : t.input_size = input_size /\ t.output_size = output_size).reduction_percent

\* The values of reduction_percent for the file sizes of the model, computed
\* once.
ReductionTable == { [input_size |-> i, output_size |-> o, reduction_percent |-> FloatReduction(i, o)] : i \in Sizes, o \in Sizes }

\* reduction_percent, as transform_gltf_file computes it.
ReductionPercent(input_size, output_size) == (CHOOSE t \in ReductionTable : t.input_size = input_size /\ t.output_size = output_size).reduction_percent

\* An except clause for another exception of subprocess.
ExecutorCatchesTimeout(type) == type = "TimeoutExpired"

\* The except clause of transform_gltf_file: subprocess.CalledProcessError only.
ExecutorCatches(type) == type = "CalledProcessError"

\* subprocess.run(cmd, capture_output=True, text=True, check=True) followed by
\* the two getsize calls: the exception it ends with, if any.
RunRaises(input, proc) ==
    IF ~proc.started THEN Exc("FileNotFoundError", <<"No such file or directory: ", "node">>)
    ELSE IF proc.code # 0 THEN Exc("CalledProcessError", <<"Command returned non-zero exit status">>)
    ELSE IF ~proc.output.exists THEN Exc("FileNotFoundError", <<"No such file or directory: ", "output.glb">>)
    ELSE NoException

\* The existence test left out.
InputExistsAlways(input) == TRUE

\* os.path.exists(input_path)
InputExists(input) == input.exists

\* transform_gltf_file(input_path, output_path, operations, options), given
\* the file at input_path and what the external process does if it is run:
\* the exception raised or the value returned, the number of times the process
\* was invoked, the command it was invoked with and the file left at
\* output_path.
TransformGltfFile(input, operations, options, proc) ==
    IF ~InputExists(input)
    THEN [raised |-> Exc("FileNotFoundError", <<"Input file not found: ", "input.glb">>), value |-> NoResult, invocations |-> 0, cmd |-> << >>, output |-> NoFile]
    ELSE IF InvalidOps(operations) # << >>
    THEN [raised |-> Exc("ValueError", <<"Invalid operations: ">> \o InvalidOps(operations)), value |-> NoResult, invocations |-> 0, cmd |-> << >>, output |-> NoFile]
    ELSE LET cmd == Command(operations, options)
             e == RunRaises(input, proc)
         IN  IF e = NoException
             THEN [raised |-> NoException,
                   value |-> [success |-> TRUE,
                              message |-> <<proc.stdout>>,
                              input_size |-> GetSize(input),
                              output_size |-> GetSize(proc.output),
                              reduction_percent |-> ReductionPercent(GetSize(input), GetSize(proc.output))],
                   invocations |-> 1, cmd |-> cmd, output |-> proc.output]
             ELSE IF ExecutorCatches(e.type)
             THEN [raised |-> NoException,
                   value |-> [success |-> FALSE,
                              message |-> <<"Transformation failed: ", proc.stderr>>,
                              error |-> e.msg],
                   invocations |-> 1, cmd |-> cmd, output |-> proc.output]
             ELSE [raised |-> e, value |-> NoResult, invocations |-> 1, cmd |-> cmd, output |-> proc.output]

\* ------------------------------------------------------------- the database

\* The format kinds of the model: two of the default targets, one other.
Kinds == {"GLTF2", "GLB", "OBJ"}

\* `if format_types is None: format_types = ["GLTF1", "GLTF2", "GLB"]`
DefaultFormatTypes == {"GLTF1", "GLTF2", "GLB"}

NoFormatTypes == [given |-> FALSE, kinds |-> {}]

FormatTypesOf(kinds) == [given |-> TRUE, kinds |-> kinds]

\* The rows of Format: the kind and the root resource reference.
FormatRows == [format_type : Kinds, root_resource : Resources \cup {NoResource}]

\* The invocations of transform_asset_formats.
Invocations == {1, 2}

\* The staging directory of one attempt: tempfile.TemporaryDirectory().
NoDir == [exists |-> FALSE, input |-> NoFile, output |-> NoFile]

NoInstance == [id |-> NoResource, file |-> NameNone]

NoBasename == [stem |-> "", suffix |-> 0]

VARIABLES
    formats,        \* the Format rows of the asset, in queryset order
    resources,      \* the Resource rows: the stored name of each file field
    storage,        \* durable storage: stored name -> file
    args,           \* per invocation: operations, options, format_types
    pc,             \* per invocation: where it is
    idx,            \* per invocation: position in the matched formats
    inst,           \* per invocation: the Resource instance in memory
    tmp,            \* per invocation: the staging directory
    pending,        \* per invocation: `result` of transform_gltf_file
    original_name,  \* per invocation: `original_name`
    results,        \* per invocation: the `results` dict
    raised,         \* per invocation: the exception that left the call
    trace,          \* per invocation: the storage and engine calls made
    pre,            \* per invocation: storage and rows when the current attempt began
    storage0,       \* storage when the calls began
    ex,             \* a direct call of transform_gltf_file
    reg,            \* Format and Resource rows and instances, for add_root_resource
    coll,           \* AssetCollection rows and the save in progress
    acct            \* users and the rows that refer to them

vars == <<formats, resources, storage, args, pc, idx, inst, tmp, pending, original_name, results, raised, trace, pre, storage0, ex, reg, coll, acct>>

ormVars == <<reg, coll, acct>>

dbVars == <<formats, resources, storage>>

localVars == <<pc, idx, inst, tmp, pending, original_name, results, raised, trace, pre>>

\* The filter left out: every format of the asset is processed.
MatchedFormatsAll(rows, format_types) == rows

\* asset.format_set.filter(format_type__in=format_types)
MatchedFormats(rows, format_types) == SelectSeq(rows, LAMBDA f : f.format_type \in (IF format_types.given THEN format_types.kinds ELSE DefaultFormatTypes))

Matched(i) == MatchedFormats(formats, args[i].format_types)

\* results[key] = value on a Python dict.
Put(d, key, value) == [k \in DOMAIN d \cup {key} |-> IF k = key THEN value ELSE d[k]]

\* Storage.get_available_name: the name itself if nothing is stored under it,
\* else the name with one more suffix.
RECURSIVE AvailableName(_, _)
AvailableName(store, name) == IF ~store[name].exists \/ name.suffix >= MaxSuffix THEN name ELSE AvailableName(store, [name EXCEPT !.suffix = @ + 1])

\* `except OSError`: an exception of another family leaves the call.
CatchesOSErrorOnly(type) == type \in {"FileNotFoundError", "OSError"}

\* `except (FileNotFoundError, ValueError, ...)`: a plain OSError leaves the call.
CatchesNamedOnly(type) == type \in {"FileNotFoundError", "ValueError", "CalledProcessError"}

\* `except Exception`: every exception of the model derives from Exception.
CatchesException(type) == type \in {"FileNotFoundError", "OSError", "ValueError", "CalledProcessError"}

\* One storage call of the attempt on the v-th matched variant, and the
\* exception it raised, if any.
Event(op, v, exc) == [op |-> op, v |-> v, exc |-> exc, ret |-> NoResult, proc |-> NoProc, runs |-> 0]

\* A delete that leaves the stored file where it is.
StorageDeleteKeeps(store, name) == store

\* Storage.delete(name)
StorageDelete(store, name) == [store EXCEPT ![name] = NoFile]

\* Storage.save(name, content)
StorageSave(store, name, file) == [store EXCEPT ![name] = file]

\* A commit only when the output is smaller than the input.
ShouldCommitIfSmaller(result) == result.success /\ result.output_size < result.input_size

\* The test of the result left out: the swap is made whatever the result.
ShouldCommitAlways(result) == TRUE

\* `if result["success"]:`
ShouldCommit(result) == result.success

\* The end of one variant's turn of the loop: the staging directory is gone,
\* the result is stored under the variant's kind and the loop moves on.
FinishVariant(i, result, events) ==
    /\ results' = [results EXCEPT ![i] = Put(@, Matched(i)[idx[i]].format_type, result)]
    /\ idx' = [idx EXCEPT ![i] = @ + 1]
    /\ pc' = [pc EXCEPT ![i] = "loop"]
    /\ tmp' = [tmp EXCEPT ![i] = NoDir]
    /\ inst' = [inst EXCEPT ![i] = NoInstance]
    /\ pending' = [pending EXCEPT ![i] = NoResult]
    /\ original_name' = [original_name EXCEPT ![i] = NoBasename]
    /\ trace' = [trace EXCEPT ![i] = @ \o events]
    /\ UNCHANGED <<raised, pre>>

\* An except clause that gives up on the remaining variants.
HandleExceptionBreaks(i, e, events) ==
    /\ results' = [results EXCEPT ![i] = Put(@, Matched(i)[idx[i]].format_type, [success |-> FALSE, message |-> e.msg, error_type |-> e.type])]
    /\ idx' = [idx EXCEPT ![i] = Len(Matched(i)) + 1]
    /\ pc' = [pc EXCEPT ![i] = "loop"]
    /\ tmp' = [tmp EXCEPT ![i] = NoDir]
    /\ inst' = [inst EXCEPT ![i] = NoInstance]
    /\ pending' = [pending EXCEPT ![i] = NoResult]
    /\ original_name' = [original_name EXCEPT ![i] = NoBasename]
    /\ trace' = [trace EXCEPT ![i] = @ \o events]
    /\ UNCHANGED <<raised, pre>>

\* An except clause reached without the with statement having removed the
\* staging directory.
HandleExceptionKeepsDir(i, e, events) ==
    /\ results' = [results EXCEPT ![i] = Put(@, Matched(i)[idx[i]].format_type, [success |-> FALSE, message |-> e.msg, error_type |-> e.type])]
    /\ idx' = [idx EXCEPT ![i] = @ + 1]
    /\ pc' = [pc EXCEPT ![i] = "loop"]
    /\ inst' = [inst EXCEPT ![i] = NoInstance]
    /\ pending' = [pending EXCEPT ![i] = NoResult]
    /\ original_name' = [original_name EXCEPT ![i] = NoBasename]
    /\ trace' = [trace EXCEPT ![i] = @ \o events]
    /\ UNCHANGED <<raised, pre, tmp>>

\* A caller that tries the variant again after an exception.
HandleExceptionRetries(i, e, events) ==
    /\ pc' = [pc EXCEPT ![i] = "stage"]
    /\ tmp' = [tmp EXCEPT ![i] = NoDir]
    /\ trace' = [trace EXCEPT ![i] = @ \o events]
    /\ UNCHANGED <<results, idx, inst, pending, original_name, raised, pre>>

\* An exception raised inside the try block: the with statement removes the
\* staging directory, then the except clause stores a failure result, or the
\* exception leaves transform_asset_formats.
HandleException(i, e, events) ==
    IF CatchesException(e.type)
    THEN FinishVariant(i, [success |-> FALSE, message |-> e.msg, error_type |-> e.type], events)
    ELSE /\ pc' = [pc EXCEPT ![i] = "raised"]
         /\ raised' = [raised EXCEPT ![i] = e]
         /\ tmp' = [tmp EXCEPT ![i] = NoDir]
         /\ trace' = [trace EXCEPT ![i] = @ \o events]
         /\ UNCHANGED <<results, idx, inst, pending, original_name, pre>>

\* ------------------------------------------------- transform_asset_formats

\* The head of `for fmt in formats`: return when the matched formats are
\* exhausted; give a variant with no root resource, or with a root resource
\* whose file field is not set, its failure result; else enter the try block
\* with the Resource row loaded from the database.
NextVariant(i) ==
    /\ pc[i] = "loop"
    /\ UNCHANGED <<dbVars, args, storage0, ormVars, ex>>
    /\ IF idx[i] > Len(Matched(i))
       THEN /\ pc' = [pc EXCEPT ![i] = "done"]
            /\ UNCHANGED <<idx, inst, tmp, pending, original_name, results, raised, trace, pre>>
       ELSE LET fmt == Matched(i)[idx[i]] IN
            IF fmt.root_resource = NoResource
            THEN FinishVariant(i, [success |-> FALSE, message |-> <<"No root resource found">>], << >>)
            ELSE IF ~FileIsSet(resources[fmt.root_resource].file)
            THEN FinishVariant(i, [success |-> FALSE, message |-> <<"Resource file not found">>], << >>)
            ELSE /\ pc' = [pc EXCEPT ![i] = "stage"]
                 /\ inst' = [inst EXCEPT ![i] = [id |-> fmt.root_resource, file |-> resources[fmt.root_resource].file]]
                 /\ pre' = [pre EXCEPT ![i] = [storage |-> storage, resources |-> resources]]
                 /\ UNCHANGED <<idx, tmp, pending, original_name, results, raised, trace>>

\* The staging directory is created and the stored file is copied to
\* input.glb in it; opening a name with no stored file, or an I/O error during
\* the copy, raises.
StageCopy(i) ==
    /\ pc[i] = "stage"
    /\ UNCHANGED <<dbVars, args, storage0, ormVars, ex>>
    /\ \E io_ok \in BOOLEAN :
         LET source == IF inst[i].file \in DOMAIN storage THEN storage[inst[i].file] ELSE NoFile IN
         IF ~source.exists
         THEN HandleException(i, Exc("FileNotFoundError", <<"No such file or directory: ", "resource file">>), <<Event("stage", idx[i], Exc("FileNotFoundError", <<"No such file or directory: ", "resource file">>))>>)
         ELSE IF ~io_ok
         THEN HandleException(i, Exc("OSError", <<"staging copy failed">>), <<Event("stage", idx[i], Exc("OSError", <<"staging copy failed">>))>>)
         ELSE /\ tmp' = [tmp EXCEPT ![i] = [exists |-> TRUE, input |-> source, output |-> NoFile]]
              /\ pc' = [pc EXCEPT ![i] = "exec"]
              /\ trace' = [trace EXCEPT ![i] = Append(@, Event("stage", idx[i], NoException))]
              /\ UNCHANGED <<idx, inst, pending, original_name, results, raised, pre>>

\* The call of transform_gltf_file for the v-th matched variant: what the call
\* raised or returned, how many times it ran the process and what the process
\* did.
EngineEvents(v, r, proc) == << [op |-> "engine", v |-> v, exc |-> r.raised, ret |-> r.value, proc |-> IF r.invocations > 0 THEN proc ELSE NoProc, runs |-> r.invocations] >>

\* result = transform_gltf_file(input_path, output_path, operations, options)
\* and the test of result["success"]; a failure result is stored as it is.
RunExecutor(i) ==
    /\ pc[i] = "exec"
    /\ UNCHANGED <<dbVars, args, storage0, ormVars, ex>>
    /\ \E proc \in ProcOutcomes :
         LET r == TransformGltfFile(tmp[i].input, args[i].operations, args[i].options, proc) IN
         IF r.raised # NoException
         THEN HandleException(i, r.raised, EngineEvents(idx[i], r, proc))
         ELSE IF ~ShouldCommit(r.value)
         THEN FinishVariant(i, r.value, EngineEvents(idx[i], r, proc))
         ELSE /\ pending' = [pending EXCEPT ![i] = r.value]
              /\ tmp' = [tmp EXCEPT ![i].output = r.output]
              /\ pc' = [pc EXCEPT ![i] = "delete"]
              /\ trace' = [trace EXCEPT ![i] = @ \o EngineEvents(idx[i], r, proc)]
              /\ UNCHANGED <<idx, inst, original_name, results, raised, pre>>

\* original_name = os.path.basename(resource.file.name), then
\* resource.file.delete(save=False): the stored file is removed and the field
\* of the instance in memory is cleared; the database row is not saved.
DeleteOld(i) ==
    /\ pc[i] = "delete"
    /\ UNCHANGED <<formats, resources, args, storage0, ormVars, ex>>
    /\ \E io_ok \in BOOLEAN :
         IF ~io_ok
         THEN /\ HandleException(i, Exc("OSError", <<"storage delete failed">>), <<Event("delete", idx[i], Exc("OSError", <<"storage delete failed">>))>>)
              /\ UNCHANGED storage
         ELSE /\ storage' = StorageDelete(storage, inst[i].file)
              /\ original_name' = [original_name EXCEPT ![i] = Basename(inst[i].file)]
              /\ inst' = [inst EXCEPT ![i].file = NameNone]
              /\ pc' = [pc EXCEPT ![i] = "write"]
              /\ trace' = [trace EXCEPT ![i] = Append(@, Event("delete", idx[i], NoException))]
              /\ UNCHANGED <<idx, tmp, pending, results, raised, pre>>

\* A save under a name of its own instead of the original name.
SaveNameSuffixed(i) == [GenerateFilename(inst[i].id, original_name[i]) EXCEPT !.suffix = @ + 1]

\* The name resource.file.save(original_name, ...) stores under.
SaveName(i) == AvailableName(storage, GenerateFilename(inst[i].id, original_name[i]))

\* A save with save=False: the file is stored, the row is not saved.
WriteNewRowNotSaved(i) ==
    /\ pc[i] = "write"
    /\ ~storage[SaveName(i)].exists
    /\ UNCHANGED <<formats, args, storage0, ormVars, ex, resources>>
    /\ storage' = StorageSave(storage, SaveName(i), tmp[i].output)
    /\ FinishVariant(i, Put(Put(pending[i], "original_name", original_name[i]), "new_file_path", SaveName(i)), <<Event("write", idx[i], NoException)>>)

\* resource.file.save(original_name, File(f), save=True): the output file is
\* written to storage under the available name and the row is saved with it;
\* the result gets original_name and new_file_path.
WriteNew(i) ==
    /\ pc[i] = "write"
    /\ ~storage[SaveName(i)].exists  \* the cap on alternative names
    /\ UNCHANGED <<formats, args, storage0, ormVars, ex>>
    /\ \E io_ok \in BOOLEAN :
         IF ~io_ok
         THEN /\ HandleException(i, Exc("OSError", <<"storage write failed">>), <<Event("write", idx[i], Exc("OSError", <<"storage write failed">>))>>)
              /\ UNCHANGED <<storage, resources>>
         ELSE /\ storage' = StorageSave(storage, SaveName(i), tmp[i].output)
              /\ resources' = [resources EXCEPT ![inst[i].id].file = SaveName(i)]
              /\ FinishVariant(i, Put(Put(pending[i], "original_name", original_name[i]), "new_file_path", SaveName(i)), <<Event("write", idx[i], NoException)>>)

\* ------------------------------------------------- a direct executor call

\* No call made yet: of transform_gltf_file (pc, proc, out) and of
\* validate_operations (vpc, vout, and varg, the list object it was given).
ExIdle == [pc |-> "off", input |-> NoFile, operations |-> << >>, options |-> NoOptions, proc |-> NoProc, out |-> [raised |-> NoException, value |-> NoResult, invocations |-> 0, cmd |-> << >>, output |-> NoFile], vpc |-> "off", varg |-> << >>, vout |-> [valid |-> FALSE, message |-> NoMessage]]

\* transform_gltf_file called on its own.
CallExecutor ==
    /\ ex.pc = "call"
    /\ \E proc \in ProcOutcomes :
         LET r == TransformGltfFile(ex.input, ex.operations, ex.options, proc) IN
         ex' = [ex EXCEPT !.pc = IF r.raised = NoException THEN "returned" ELSE "raised", !.proc = proc, !.out = r]
    /\ UNCHANGED <<dbVars, args, localVars, storage0, ormVars>>

\* validate_operations called on its own: it reads the list and returns.
CallValidate ==
    /\ ex.vpc = "call"
    /\ ex' = [ex EXCEPT !.vpc = "returned", !.vout = ValidateOperations(ex.varg)]
    /\ UNCHANGED <<dbVars, args, localVars, storage0, ormVars>>

\* ---------------------------------------------------- the other models

RegIdle == [pc |-> "off"]

CollIdle == [pc |-> "off"]

AcctIdle == [pc |-> "off"]

\* The models that take no part in the transform pipeline are left alone.
OrmIdle == reg = RegIdle /\ coll = CollIdle /\ acct = AcctIdle

\* ------------------------------------------------------- specifications

AssetCallOps == { << >>, <<"dedup", "prune">>, <<"dedup", "bogus">> }

AssetCallOptions == { OptionsOf({"ratio"}) }

AssetCallFormatTypes == { NoFormatTypes, FormatTypesOf({"GLB", "OBJ"}) }

NoArgs == [operations |-> << >>, options |-> NoOptions, format_types |-> NoFormatTypes]

\* The states of one resource: no file set (None or ""), a name with no
\* stored file, a name with a stored file.
ResourceStates(r) == { [file |-> NameNone, stored |-> NoFile], [file |-> NameEmpty, stored |-> NoFile], [file |-> StoredName(r, 0), stored |-> NoFile], [file |-> StoredName(r, 0), stored |-> FileOf(OriginalBytes)] }

LocalInit(active) ==
    /\ pc = [i \in Invocations |-> IF i \in active THEN "loop" ELSE "off"]
    /\ idx = [i \in Invocations |-> 1]
    /\ inst = [i \in Invocations |-> NoInstance]
    /\ tmp = [i \in Invocations |-> NoDir]
    /\ pending = [i \in Invocations |-> NoResult]
    /\ original_name = [i \in Invocations |-> NoBasename]
    /\ results = [i \in Invocations |-> << >>]
    /\ raised = [i \in Invocations |-> NoException]
    /\ trace = [i \in Invocations |-> << >>]
    /\ pre = [i \in Invocations |-> [storage |-> storage, resources |-> resources]]
    /\ storage0 = storage

\* One call of transform_asset_formats on an asset of at most MaxFormats
\* format variants over two resources: r1 has a stored file, r2 is in any
\* state.
Init ==
    /\ formats \in SeqsUpTo(FormatRows, MaxFormats)
    /\ \E s2 \in ResourceStates("r2") :
         /\ resources = [r \in Resources |-> [file |-> IF r = "r1" THEN StoredName(r, 0) ELSE s2.file]]
         /\ storage = [n \in Names |-> IF n = StoredName("r1", 0) THEN FileOf(OriginalBytes) ELSE IF n = StoredName("r2", 0) THEN s2.stored ELSE NoFile]
    /\ \E ops \in AssetCallOps, opts \in AssetCallOptions, ft \in AssetCallFormatTypes :
         args = [i \in Invocations |-> IF i = 1 THEN [operations |-> ops, options |-> opts, format_types |-> ft] ELSE NoArgs]
    /\ LocalInit({1})
    /\ ex = ExIdle
    /\ OrmIdle

Step(i) == NextVariant(i) \/ StageCopy(i) \/ RunExecutor(i) \/ DeleteOld(i) \/ WriteNew(i)

Next == \E i \in Invocations : Step(i)

Spec == Init /\ [][Next]_vars

\* Two calls of transform_asset_formats running at the same time, each in a
\* process of its own, with the same arguments on the same asset: one GLB
\* format whose root resource r1 has a stored file.  Each call has its own
\* staging directory and its own Resource instance; the rows and durable
\* storage are shared.
InitConc ==
    /\ formats = <<[format_type |-> "GLB", root_resource |-> "r1"]>>
    /\ resources = [r \in Resources |-> [file |-> IF r = "r1" THEN StoredName(r, 0) ELSE NameNone]]
    /\ storage = [n \in Names |-> IF n = StoredName("r1", 0) THEN FileOf(OriginalBytes) ELSE NoFile]
    /\ args = [i \in Invocations |-> [operations |-> <<"dedup", "prune">>, options |-> NoOptions, format_types |-> NoFormatTypes]]
    /\ LocalInit(Invocations)
    /\ ex = ExIdle
    /\ OrmIdle

SpecConc == InitConc /\ [][Next]_vars

\* One direct call of transform_gltf_file on any input file, operation list
\* and options, and one of validate_operations on the same list.
InitExec ==
    /\ formats = << >>
    /\ resources = [r \in Resources |-> [file |-> NameNone]]
    /\ storage = [n \in Names |-> NoFile]
    /\ args = [i \in Invocations |-> NoArgs]
    /\ LocalInit({})
    /\ \E input \in {NoFile} \cup {FileOf(b) : b \in Contents}, ops \in SeqsUpTo(OpNames, MaxOps), options \in OptionValues :
         ex = [ExIdle EXCEPT !.pc = "call", !.input = input, !.operations = ops, !.options = options, !.vpc = "call", !.varg = ops]
    /\ OrmIdle

NextExec == CallExecutor \/ CallValidate

SpecExec == InitExec /\ [][NextExec]_vars

\* ------------------------------------------------------------ observations

Last(i) == trace[i][Len(trace[i])]

\* The attempt on a variant has just ended: the loop is back at its head (or
\* has returned) and the last call made was made for the variant before idx.
JustFinished(i) == pc[i] \in {"loop", "done"} /\ trace[i] # << >> /\ Last(i).v = idx[i] - 1

\* The variant the last call was made for: its kind, its root resource and the
\* stored name of that resource when the attempt began.
LastKind(i) == Matched(i)[Last(i).v].format_type

LastRoot(i) == Matched(i)[Last(i).v].root_resource

LastName(i) == pre[i].resources[LastRoot(i)].file

EventsOf(i, v, op) == SelectSeq(trace[i], LAMBDA e : e.v = v /\ e.op = op)

OpsOf(i, v) == LET es == SelectSeq(trace[i], LAMBDA e : e.v = v) IN [k \in 1..Len(es) |-> es[k].op]

\* The engine ran and exited non-zero; the executor returned its failure.
EngineFailed(e) == e.op = "engine" /\ e.runs > 0 /\ e.proc.started /\ e.proc.code # 0

\* The engine ran, exited zero and left an output file.
EngineSucceeded(e) == e.op = "engine" /\ e.runs > 0 /\ e.exc = NoException /\ e.proc.started /\ e.proc.code = 0 /\ e.proc.output.exists

WriteFailed(e) == e.op = "write" /\ e.exc # NoException

WriteOk(e) == e.op = "write" /\ e.exc = NoException

IsPrefix(a, b) == Len(a) <= Len(b) /\ \A k \in 1..Len(a) : a[k] = b[k]

\* The matched variants other than v that have the root resource of v.
SharesRoot(i, v) == \E w \in 1..Len(Matched(i)) : w # v /\ Matched(i)[w].root_resource = Matched(i)[v].root_resource

\* A variant the loop stages: it has a root resource whose file field is set.
Eligible(i, v) == Matched(i)[v].root_resource # NoResource /\ FileIsSet(resources[Matched(i)[v].root_resource].file)

\* The result the except clause of transform_asset_formats stores for e.
FailureOf(e) == [success |-> FALSE, message |-> e.msg, error_type |-> e.type]

\* ------------------------------------------------------------------ claims

\* C1: for a variant whose engine run exits non-zero, no delete and no write
\* is issued for it, the file stored under the resource's name when the
\* attempt ends is the file stored there when it began, the result stored for
\* the variant is the value the executor returned, a failure, and, when no
\* other matched variant has the same root resource, the stored file at the
\* end of the call is the one stored before the call.
C1_EngineFailureLeavesResource ==
    \A i \in Invocations : \A k \in 1..Len(trace[i]) :
        EngineFailed(trace[i][k]) =>
            LET e == trace[i][k]
                name == resources[Matched(i)[e.v].root_resource].file
            IN  /\ EventsOf(i, e.v, "delete") = << >>
                /\ EventsOf(i, e.v, "write") = << >>
                /\ ~e.ret.success /\ e.exc = NoException
                /\ (JustFinished(i) /\ k = Len(trace[i])) =>
                       /\ results[i][LastKind(i)] = e.ret
                       /\ storage[LastName(i)] = pre[i].storage[LastName(i)]
                /\ (pc[i] = "done" /\ ~SharesRoot(i, e.v)) => storage[name] = storage0[name]

C1_Witness == \E i \in Invocations : JustFinished(i) /\ EngineFailed(Last(i)) /\ storage[LastName(i)].exists /\ DOMAIN results[i][LastKind(i)] = {"success", "message", "error"}

\* C2: whenever the attempt on a variant ends with a result of success=false,
\* the file stored under the resource's name is the one stored there when the
\* attempt began.
C2_FailureLeavesResourceUntouched ==
    \A i \in Invocations :
        (JustFinished(i) /\ ~results[i][LastKind(i)].success) => storage[LastName(i)] = pre[i].storage[LastName(i)]

\* C3: when the engine run succeeds and the storage write then fails, no
\* exception leaves transform_asset_formats, the variant's result is the
\* failure carrying the exception's message and type name, and no file is
\* stored under the resource's name, which the row still holds: the old file
\* was deleted and is not restored.
C3_WriteFailureLeavesNoFile ==
    \A i \in Invocations :
        (trace[i] # << >> /\ WriteFailed(Last(i))) =>
            /\ pc[i] # "raised" /\ raised[i] = NoException
            /\ JustFinished(i) =>
                  /\ results[i][LastKind(i)] = FailureOf(Last(i).exc)
                  /\ resources[LastRoot(i)].file = LastName(i)
                  /\ pre[i].storage[LastName(i)].exists
                  /\ ~storage[LastName(i)].exists

C3_Witness == \E i \in Invocations : JustFinished(i) /\ WriteFailed(Last(i)) /\ results[i][LastKind(i)].error_type = "OSError" /\ ~storage[LastName(i)].exists

\* C4: the calls made for one variant are a prefix of stage, engine, delete,
\* write; a delete directly follows a successful engine run for the same
\* variant, a write directly follows a successful delete for the same variant,
\* and between the delete and the write nothing is stored under the name of
\* the resource, under which a file was stored when the attempt began.
C4_DeleteAfterEngineBeforeWrite ==
    \A i \in Invocations :
        /\ \A v \in 1..Len(Matched(i)) : IsPrefix(OpsOf(i, v), <<"stage", "engine", "delete", "write">>)
        /\ \A k \in 1..Len(trace[i]) :
              /\ trace[i][k].op = "delete" => (k > 1 /\ EngineSucceeded(trace[i][k - 1]) /\ trace[i][k - 1].ret.success /\ trace[i][k - 1].v = trace[i][k].v)
              /\ trace[i][k].op = "write" => (k > 1 /\ trace[i][k - 1].op = "delete" /\ trace[i][k - 1].exc = NoException /\ trace[i][k - 1].v = trace[i][k].v)
        /\ pc[i] = "write" =>
              /\ Last(i).op = "delete" /\ Last(i).v = idx[i]
              /\ pre[i].storage[resources[inst[i].id].file].exists
              /\ ~storage[resources[inst[i].id].file].exists

C4_Witness == \E i \in Invocations : JustFinished(i) /\ WriteOk(Last(i)) /\ OpsOf(i, Last(i).v) = <<"stage", "engine", "delete", "write">>

\* C5: after a successful transform of a variant the row of the resource holds
\* the name it held before, the file stored under that name is the engine's
\* output file, the result names that path, and no file is stored under any
\* other name of the resource.
C5_SuccessKeepsNameStoresOutput ==
    \A i \in Invocations :
        (JustFinished(i) /\ WriteOk(Last(i))) =>
            LET engine == EventsOf(i, Last(i).v, "engine") IN
            /\ Len(engine) = 1 /\ EngineSucceeded(engine[1]) /\ engine[1].runs = 1
            /\ resources[LastRoot(i)].file = LastName(i)
            /\ storage[LastName(i)] = engine[1].proc.output
            /\ results[i][LastKind(i)].success
            /\ results[i][LastKind(i)].new_file_path = LastName(i)
            /\ results[i][LastKind(i)].original_name = Basename(LastName(i))
            /\ \A n \in Names : (n.dir = LastName(i).dir /\ n # LastName(i)) => ~storage[n].exists

C5_Witness == \E i \in Invocations : JustFinished(i) /\ WriteOk(Last(i)) /\ storage[LastName(i)] # pre[i].storage[LastName(i)] /\ storage[LastName(i)].bytes \in EngineOutputs

\* C6: the mapping returned has as many entries as there are matched variants.
C6_OneEntryPerMatchedVariant ==
    \A i \in Invocations : pc[i] = "done" => Cardinality(DOMAIN results[i]) = Len(Matched(i))

\* C7: whatever happened to the variants before it, every matched variant is
\* reached: the call returns only after the last one, each variant with a root
\* resource and a file is staged once, its engine is invoked once when the
\* staging copy succeeded and the operations pass the executor's check, and a
\* variant without either gets no call at all.
C7_LaterVariantsStillAttempted ==
    \A i \in Invocations :
        /\ pc[i] = "done" => idx[i] = Len(Matched(i)) + 1
        /\ pc[i] # "off" => \A v \in 1..Len(Matched(i)) :
              (v < idx[i]) =>
                 IF Eligible(i, v)
                 THEN /\ Len(EventsOf(i, v, "stage")) = 1
                      /\ EventsOf(i, v, "stage")[1].exc = NoException =>
                            /\ Len(EventsOf(i, v, "engine")) = 1
                            /\ EventsOf(i, v, "engine")[1].runs = (IF InvalidOps(args[i].operations) = << >> THEN 1 ELSE 0)
                 ELSE OpsOf(i, v) = << >>

C7_Witness == \E i \in Invocations : \E j, k \in 1..Len(trace[i]) : j < k /\ trace[i][j].v < trace[i][k].v /\ (trace[i][j].exc # NoException \/ EngineFailed(trace[i][j])) /\ WriteOk(trace[i][k]) /\ pc[i] = "done"

\* C8: no exception leaves transform_asset_formats: an exception raised by the
\* staging copy, by the executor, by the delete or by the write ends the
\* attempt with the result success=false, the exception's message and its
\* type name.
C8_NoExceptionEscapes ==
    \A i \in Invocations :
        /\ pc[i] # "raised" /\ raised[i] = NoException
        /\ (JustFinished(i) /\ Last(i).exc # NoException) => results[i][LastKind(i)] = FailureOf(Last(i).exc)

C8_Witness == \E i \in Invocations : pc[i] = "done" /\ JustFinished(i) /\ Last(i).op = "engine" /\ Last(i).exc.type = "ValueError" /\ results[i][LastKind(i)].error_type = "ValueError"

\* C9: transform_gltf_file raises only from its precondition checks, before
\* the external process is invoked.
C9_RaisesOnlyFromPreconditions == ex.pc = "raised" => ex.out.invocations = 0

C11_ExecutorMirrorsValidate ==
    (ex.pc \in {"returned", "raised"} /\ ex.vpc = "returned" /\ ex.input.exists) =>
        /\ ~ex.vout.valid <=> (ex.pc = "raised" /\ ex.out.raised.type = "ValueError" /\ ex.out.invocations = 0)
        /\ ex.vout.valid <=> ex.out.invocations > 0

\* An operation list that is an input error: empty, or holding a name outside
\* the allow-list.
InputError(operations) == operations = << >> \/ \E k \in 1..Len(operations) : operations[k] \notin AVAILABLE_OPERATIONS

\* C12: in a call of transform_asset_formats whose operation list is an input
\* error, the engine is never run, no delete and no write is issued (the
\* stored bytes of every resource stay as they were), and the result of every
\* variant that was staged is a failure.
C12_InputErrorNeverIgnored ==
    \A i \in Invocations :
        (pc[i] # "off" /\ InputError(args[i].operations)) =>
            /\ \A k \in 1..Len(trace[i]) : trace[i][k].runs = 0 /\ trace[i][k].op \notin {"delete", "write"}
            /\ storage = storage0
            /\ JustFinished(i) => ~results[i][LastKind(i)].success

\* The attempt on the v-th matched variant is the one that ended last: the
\* loop is back at its head, or has returned, right after v.
Done(i, v) == pc[i] \in {"loop", "done"} /\ v = idx[i] - 1 /\ v \in 1..Len(Matched(i))

\* The events of invocation i made for variants whose root resource is r.
EventsOn(i, r) == SelectSeq(trace[i], LAMBDA e : Matched(i)[e.v].root_resource = r)

ResourceFileNotFound == [success |-> FALSE, message |-> <<"Resource file not found">>]

NoRootResourceFound == [success |-> FALSE, message |-> <<"No root resource found">>]

\* C14: the turn of the loop on a matched variant with no root resource
\* stores the result "No root resource found" under the variant's kind, makes
\* no storage call and no engine run, changes no row and no stored file, moves
\* on to the next variant, and leaves the result of every variant before it
\* as it was.
C14_NoRootResourceIsReported ==
    [][\A i \in Invocations :
          (pc[i] = "loop" /\ idx[i] <= Len(Matched(i)) /\ Matched(i)[idx[i]].root_resource = NoResource /\ idx'[i] # idx[i]) =>
              /\ results'[i][Matched(i)[idx[i]].format_type] = NoRootResourceFound
              /\ trace'[i] = trace[i] /\ storage' = storage /\ resources' = resources /\ formats' = formats
              /\ pc'[i] = "loop" /\ idx'[i] = idx[i] + 1
              /\ \A w \in 1..(idx[i] - 1) : results'[i][Matched(i)[w].format_type] = results[i][Matched(i)[w].format_type]]_vars

\* The positions of the list whose entry is outside the allow-list.
Offending(operations) == {k \in 1..Len(operations) : operations[k] \notin AVAILABLE_OPERATIONS}

\* The names a message lists: its parts after the heading, separators dropped.
NamesListed(message) == SelectSeq(Tail(message), LAMBDA part : part # ", ")

\* C15: validate_operations returns (False, "No operations specified") for
\* the empty list; else, when an entry is outside the allow-list of 16 names,
\* (False, message) where the message lists exactly the entries outside the
\* allow-list, in list order, each as often as it occurs; else (True, None);
\* the list it was given is the same after the call.
C15_ValidateOperations ==
    /\ Cardinality(AVAILABLE_OPERATIONS) = 16
    /\ ex.varg = ex.operations
    /\ ex.vpc = "returned" =>
          LET ops == ex.operations
              out == ex.vout
          IN  /\ ops = << >> => out = [valid |-> FALSE, message |-> <<"No operations specified">>]
              /\ (ops # << >> /\ Offending(ops) # {}) =>
                    /\ ~out.valid
                    /\ out.message[1] = "Invalid operations: "
                    /\ Len(NamesListed(out.message)) = Cardinality(Offending(ops))
                    /\ \A n \in 1..Len(NamesListed(out.message)) :
                          \E k \in Offending(ops) : ops[k] = NamesListed(out.message)[n] /\ Cardinality({j \in Offending(ops) : j < k}) = n - 1
                    /\ Len(out.message) = 2 * Cardinality(Offending(ops))
              /\ (ops # << >> /\ Offending(ops) = {}) => out = [valid |-> TRUE, message |-> NoMessage]

C15_Witness == ex.vpc = "returned" /\ ex.operations = <<"bogus", "Dedup">> /\ ex.vout.message = <<"Invalid operations: ", "bogus", ", ", "Dedup">>

\* C16: a call of transform_gltf_file on an input path at which no file
\* exists ends by raising FileNotFoundError "Input file not found", having
\* built no command and invoked the process zero times, whatever the operation
\* list and the options are.
C16_MissingInputFailsFirst ==
    (ex.pc \in {"returned", "raised"} /\ ~ex.input.exists) =>
        /\ ex.pc = "raised"
        /\ ex.out.raised = Exc("FileNotFoundError", <<"Input file not found: ", "input.glb">>)
        /\ ex.out.invocations = 0 /\ ex.out.cmd = << >> /\ ~ex.out.output.exists

C16_Witness == ex.pc = "raised" /\ ~ex.input.exists /\ ex.operations = <<"dedup", "prune">> /\ OptionsTruthy(ex.options) /\ ex.out.invocations = 0

\* C17 as stated: a successful call of transform_gltf_file returns
\* success=true with input_size and output_size the byte lengths of the input
\* and output files, and reduction_percent * input_size, evaluated as Python
\* evaluates it, equal to (input_size - output_size) * 100 when input_size > 0,
\* and reduction_percent zero when input_size = 0.
C17_ReductionIdentity ==
    (ex.pc = "returned" /\ ex.out.value.success) =>
        LET v == ex.out.value
        IN  /\ v.input_size = Len(ex.input.bytes) /\ v.output_size = Len(ex.out.output.bytes)
            /\ IF v.input_size > 0
               THEN FloatTimesInt(v.reduction_percent, v.input_size) = FloatOfInt((v.input_size - v.output_size) * 100)
               ELSE v.reduction_percent.man = << >>

\* |r| * k is within tol units in the last place of r of the natural number n.
WithinUlps(r, k, n, tol) ==
    LET lhs == MulBits(r.man, k)
        rhs == IF n = 0 THEN << >> ELSE Zeros(-r.exp) \o BitsOf(n)
    IN  LessEqBits(lhs, AddBits(rhs, BitsOf(tol * k))) /\ LessEqBits(rhs, AddBits(lhs, BitsOf(tol * k)))

\* The example of the claim, 10000 and 8000 bytes, and the double 20.0.
ExampleReduction == [reduction_percent |-> FloatReduction(10000, 8000), twenty |-> FloatOfInt(20)]

\* C17 as amended: a successful call returns success=true with input_size and
\* output_size the byte lengths of the input and output files; when
\* input_size > 0, reduction_percent is a double with the sign of
\* input_size - output_size whose exact product with input_size is within two
\* units in the last place, times input_size, of
\* (input_size - output_size) * 100, and it is 0.0 when the sizes are equal;
\* when input_size = 0 it is the int 0; 10000 and 8000 bytes give 20.0.
C17_ReductionWithinRounding ==
    /\ ExampleReduction.reduction_percent = ExampleReduction.twenty
    /\ (ex.pc = "returned" /\ ex.out.value.success) =>
          LET v == ex.out.value
              r == v.reduction_percent
              n == (v.input_size - v.output_size) * 100
          IN  /\ v.input_size = Len(ex.input.bytes) /\ v.output_size = Len(ex.out.output.bytes)
              /\ IF v.input_size > 0
                 THEN /\ r.type = "float"
                      /\ r.sign = (IF n < 0 THEN 1 ELSE 0)
                      /\ n = 0 <=> r.man = << >>
                      /\ r.man # << >> => (Len(r.man) = Precision /\ r.man[Precision] = 1 /\ r.exp < 0)
                      /\ WithinUlps(r, v.input_size, Abs(n), 2)
                 ELSE r = IntZero

C17_Witness == ex.pc = "returned" /\ ex.out.value.success /\ ex.out.value.input_size = 3 /\ ex.out.value.output_size = 1 /\ ~WithinUlps(ex.out.value.reduction_percent, 3, 200, 0) /\ FloatTimesInt(ex.out.value.reduction_percent, 3) # FloatOfInt(200)

\* C18: the staging directory of an invocation, with its input and output
\* files, exists only between a successful staging copy and the end of the
\* same variant's attempt: whenever the loop is at its head, is entering the
\* next variant, has returned or was left by an exception, no staging
\* directory or file exists, whichever way the attempt before ended; while it
\* exists, its input file holds the bytes staged for the current variant.
C18_StagingRemoved ==
    \A i \in Invocations :
        /\ pc[i] \in {"off", "loop", "stage", "done", "raised"} => (tmp[i] = NoDir /\ ~tmp[i].exists /\ ~tmp[i].input.exists /\ ~tmp[i].output.exists)
        /\ tmp[i].exists =>
              /\ pc[i] \in {"exec", "delete", "write"}
              /\ Last(i).v = idx[i] /\ EventsOf(i, idx[i], "stage") = <<Event("stage", idx[i], NoException)>>
              /\ tmp[i].input = pre[i].storage[pre[i].resources[inst[i].id].file]
              /\ tmp[i].output.exists <=> pc[i] \in {"delete", "write"}

C18_Witness == \E i \in Invocations : JustFinished(i) /\ idx[i] = 2 /\ pc[i] = "loop" /\ Len(Matched(i)) = 2 /\ WriteFailed(Last(i)) /\ tmp[i] = NoDir

\* The kinds a call is aimed at: those it names, or GLTF1, GLTF2 and GLB.
TargetKinds(i) == IF args[i].format_types.given THEN args[i].format_types.kinds ELSE {"GLTF1", "GLTF2", "GLB"}

\* r is the root resource of a variant of a kind invocation i is aimed at.
Targeted(i, r) == pc[i] # "off" /\ \E k \in 1..Len(formats) : formats[k].root_resource = r /\ formats[k].format_type \in TargetKinds(i)

\* C19: the variants a call works on are those of the kinds it is aimed at
\* (GLTF1, GLTF2, GLB when format_types is omitted); every resource it loads
\* is the root resource of such a variant; no step changes a format row or
\* the arguments; and a resource that is not the root resource of such a
\* variant (the resource of a variant of another kind, an auxiliary resource)
\* keeps its row and every file stored under its names.
C19_OnlyMatchedRootResourcesChange ==
    [][/\ \A i \in Invocations :
             /\ \A v \in 1..Len(Matched(i)) : Matched(i)[v].format_type \in TargetKinds(i)
             /\ pc[i] \in {"stage", "exec", "delete", "write"} => Targeted(i, inst[i].id)
       /\ formats' = formats /\ args' = args
       /\ \A r \in Resources :
             (\A i \in Invocations : ~Targeted(i, r)) =>
                 /\ resources'[r] = resources[r]
                 /\ \A n \in Names : n.dir = UploadDir(r) => storage'[n] = storage[n]]_vars

C19_Witness == \E i \in Invocations : /\ pc[i] = "done" /\ ~args[i].format_types.given
                                       /\ (\E k \in 1..Len(trace[i]) : WriteOk(trace[i][k]))
                                       /\ storage[StoredName("r1", 0)].bytes \in EngineOutputs
                                       /\ \E f \in 1..Len(formats) : formats[f].format_type = "OBJ" /\ formats[f].root_resource = "r2"
                                       /\ ~Targeted(i, "r2") /\ storage[StoredName("r2", 0)] = FileOf(OriginalBytes)

\* The file the engine of invocation i left at its output path.
OutputOf(i) == EventsOf(i, 1, "engine")[1].proc.output

\* The names of resource r under which a file is stored.
StoredFor(r) == {n \in Names : n.dir = UploadDir(r) /\ storage[n].exists}

\* Both calls have returned success for the one variant, each having staged
\* the original bytes: the second staged before the first committed.
BothSucceededOnOriginal == \A i \in Invocations : pc[i] = "done" /\ results[i]["GLB"].success /\ results[i]["GLB"].input_size = Len(OriginalBytes)

\* C20: nothing keeps two concurrent calls on the same resource apart;
\* whenever both have transformed the original bytes and reported success,
\* either a single file is stored for the resource, under its original name,
\* which both results name, and it is the output of one call, the committed
\* output of the other having been deleted (a lost update), or the outputs of
\* both calls are stored and the row of the resource holds a name different
\* from the original one.
C20_ConcurrentCallsRace ==
    BothSucceededOnOriginal =>
        LET n0 == StoredName("r1", 0)
            row == resources["r1"].file
        IN  \/ /\ row = n0 /\ StoredFor("r1") = {n0}
               /\ storage[n0] \in {OutputOf(i) : i \in Invocations}
               /\ \A i \in Invocations : results[i]["GLB"].new_file_path = n0
            \/ /\ row # n0 /\ StoredFor("r1") = {n0, row}
               /\ \E i, j \in Invocations :
                     /\ i # j
                     /\ storage[n0] = OutputOf(i) /\ results[i]["GLB"].new_file_path = n0
                     /\ storage[row] = OutputOf(j) /\ results[j]["GLB"].new_file_path = row

\* A lost update: both calls report success, the output of call 1 is stored
\* nowhere, the output of call 2 is the stored file.
C20_Witness == BothSucceededOnOriginal /\ OutputOf(1) # OutputOf(2) /\ storage[StoredName("r1", 0)] = OutputOf(2) /\ (\A n \in Names : storage[n] # OutputOf(1)) /\ resources["r1"].file = StoredName("r1", 0)

\* The other outcome: the resource ends stored under another name.
C20_Renamed == BothSucceededOnOriginal /\ resources["r1"].file # StoredName("r1", 0)

\* The race state: both calls hold a staged copy of the original bytes and
\* neither has deleted or written yet.
C20_BothStaged == \A i \in Invocations : pc[i] \in {"exec", "delete"} /\ tmp[i].input = FileOf(OriginalBytes) /\ storage = storage0

\* ------------------------------------------------ an engine that may hang

\* A subprocess.run given a timeout: the wait ends with TimeoutExpired, which
\* the caller's except clause turns into a failure result.
EngineHangsUntilTimeout(i) ==
    \/ /\ pc[i] = "exec"
       /\ InputExists(tmp[i].input)
       /\ InvalidOps(args[i].operations) = << >>
       /\ pc' = [pc EXCEPT ![i] = "hung"]
       /\ UNCHANGED <<dbVars, args, storage0, ormVars, ex, idx, inst, tmp, pending, original_name, results, raised, trace, pre>>
    \/ /\ pc[i] = "hung"
       /\ HandleException(i, Exc("TimeoutExpired", <<"timed out">>), <<Event("engine", idx[i], Exc("TimeoutExpired", <<"timed out">>))>>)
       /\ UNCHANGED <<dbVars, args, storage0, ormVars, ex>>

\* subprocess.run is called with no timeout: when the process it started does
\* not exit, the calling thread waits in it and no later statement of the
\* call runs.
EngineHangs(i) ==
    /\ pc[i] = "exec"
    /\ InputExists(tmp[i].input)
    /\ InvalidOps(args[i].operations) = << >>
    /\ pc' = [pc EXCEPT ![i] = "hung"]
    /\ UNCHANGED <<dbVars, args, storage0, ormVars, ex, idx, inst, tmp, pending, original_name, results, raised, trace, pre>>

FairRows == [format_type : {"GLB", "GLTF2"}, root_resource : Resources]

\* One call of transform_asset_formats on an asset whose variants all have a
\* root resource with a stored file, run by a thread that is always
\* scheduled again; an engine invocation may never exit.
InitFair ==
    /\ formats \in SeqsUpTo(FairRows, MaxFormats)
    /\ resources = [r \in Resources |-> [file |-> StoredName(r, 0)]]
    /\ storage = [n \in Names |-> IF n.suffix = 0 THEN FileOf(OriginalBytes) ELSE NoFile]
    /\ \E ops \in AssetCallOps :
         args = [i \in Invocations |-> IF i = 1 THEN [operations |-> ops, options |-> NoOptions, format_types |-> NoFormatTypes] ELSE NoArgs]
    /\ LocalInit({1})
    /\ ex = ExIdle
    /\ OrmIdle

NextFair == \E i \in Invocations : Step(i) \/ EngineHangs(i)

SpecFair == InitFair /\ [][NextFair]_vars /\ WF_vars(Step(1))

Returned(i) == pc[i] = "done" /\ idx[i] = Len(Matched(i)) + 1 /\ DOMAIN results[i] = {Matched(i)[v].format_type : v \in 1..Len(Matched(i))}

\* C21: transform_asset_formats has no timeout: when no engine invocation
\* hangs the call eventually returns with every matched variant processed;
\* once an engine invocation hangs the call stays in it for ever: it never
\* returns, its results and storage stay as they are, and no variant after
\* the blocked one is attempted.
C21_NoTimeout ==
    /\ [](pc[1] # "hung") => <>Returned(1)
    /\ [][pc[1] = "hung" => (pc'[1] = "hung" /\ UNCHANGED <<results, idx, trace, storage, resources>>)]_vars
    /\ [](pc[1] = "hung" => \A k \in 1..Len(trace[1]) : trace[1][k].v <= idx[1])

C21_Witness == pc[1] = "hung" /\ idx[1] < Len(Matched(1)) /\ trace[1] # << >>

\* C22: no retries: within one transform_asset_formats call
\* transform_gltf_file is called at most once for each matched variant,
\* whatever its outcome, and each call of it runs the process at most once.
C22_NoRetries ==
    \A v \in 1..Len(Matched(1)) :
        /\ Len(EventsOf(1, v, "engine")) <= 1
        /\ \A k \in 1..Len(trace[1]) : trace[1][k].runs <= 1

C22_Witness ==
    /\ pc[1] = "done"
    /\ \E k \in 1..Len(trace[1]) : trace[1][k].op = "engine" /\ trace[1][k].runs = 1 /\ trace[1][k].exc # NoException
    /\ \E n \in 1..Len(trace[1]) : trace[1][n].op = "engine" /\ trace[1][n].runs = 1 /\ trace[1][n].proc.code # 0 /\ trace[1][n].exc = NoException

\* C29: a successful engine run is committed whatever the size change: when
\* the output is not smaller than the input, transform_gltf_file returns
\* success with reduction_percent zero (equal sizes) or negative (a larger
\* output), and transform_asset_formats goes on to delete the old file and,
\* when the write succeeds, has the output stored under the resource's name.
C29_GrowthIsCommitted ==
    \A k \in 1..Len(trace[1]) :
        LET e == trace[1][k] IN
        EngineSucceeded(e) =>
            /\ e.ret.success
            /\ e.ret.output_size = GetSize(e.proc.output)
            /\ e.ret.output_size >= e.ret.input_size =>
                /\ IF e.ret.output_size = e.ret.input_size
                   THEN e.ret.reduction_percent = FloatZero
                   ELSE e.ret.reduction_percent.sign = 1 /\ e.ret.reduction_percent.man # << >>
                /\ k = Len(trace[1]) => (pc[1] = "delete" /\ idx[1] = e.v /\ pending[1] = e.ret /\ tmp[1].output = e.proc.output)
                /\ k < Len(trace[1]) => trace[1][k + 1].op = "delete" /\ trace[1][k + 1].v = e.v
                /\ (JustFinished(1) /\ Last(1).v = e.v /\ WriteOk(Last(1))) =>
                       /\ resources[LastRoot(1)].file = LastName(1)
                       /\ storage[LastName(1)] = e.proc.output
                       /\ results[1][LastKind(1)].success
                       /\ results[1][LastKind(1)].reduction_percent = e.ret.reduction_percent

C29_Witness ==
    /\ pc[1] = "done"
    /\ \E k, n \in 1..Len(trace[1]) :
         /\ EngineSucceeded(trace[1][k]) /\ trace[1][k].ret.output_size > trace[1][k].ret.input_size
         /\ EngineSucceeded(trace[1][n]) /\ trace[1][n].ret.output_size = trace[1][n].ret.input_size
         /\ \A v \in {trace[1][k].v, trace[1][n].v} : \E w \in 1..Len(trace[1]) : trace[1][w].v = v /\ WriteOk(trace[1][w])

\* ------------------------------------------------------- add_root_resource

FormatIds == {"f1", "f2"}

NoFormat == "None"

\* The variables of Python that hold a Resource instance.
Handles == {"resource", "other"}

Unloaded == [id |-> NoResource, format |-> NoFormat]

NoCall == [self |-> NoFormat, resource |-> Unloaded, error |-> "", saved |-> {}]

\* The transform pipeline takes no part.
PipelineIdle ==
    /\ formats = << >>
    /\ resources = [r \in Resources |-> [file |-> NameNone]]
    /\ storage = [n \in Names |-> NoFile]
    /\ args = [i \in Invocations |-> NoArgs]
    /\ LocalInit({})
    /\ ex = ExIdle

pipelineVars == <<formats, resources, storage, args, localVars, storage0, ex>>

\* Resource.objects.get(...) or refresh_from_db(): the instance in memory is
\* the stored row.
GetResource(h, r) ==
    /\ reg.pc = "on"
    /\ reg' = [reg EXCEPT !.mem[h] = [id |-> r, format |-> reg.format[r]], !.last = "get"]
    /\ UNCHANGED <<pipelineVars, coll, acct>>

\* resource.format = f; resource.save(): a resource is attached to a format.
Attach(h, f) ==
    /\ reg.pc = "on"
    /\ reg.mem[h].id # NoResource
    /\ reg' = [reg EXCEPT !.mem[h].format = f, !.format[reg.mem[h].id] = f, !.last = "attach"]
    /\ UNCHANGED <<pipelineVars, coll, acct>>

\* add_root_resource without its test of resource.format.
AddRootResourceUnchecked(f, h) ==
    /\ reg.pc = "on"
    /\ reg.mem[h].id # NoResource
    /\ reg' = [reg EXCEPT !.mem[h].format = NoFormat,
                          !.format[reg.mem[h].id] = NoFormat,
                          !.root_resource[f] = reg.mem[h].id,
                          !.call = [self |-> f, resource |-> reg.mem[h], error |-> "", saved |-> {"resource", "format"}],
                          !.last = "add_root_resource"]
    /\ UNCHANGED <<pipelineVars, coll, acct>>

\* Format.add_root_resource(self, resource), self being the format f and
\* resource the instance held by h: the exception when the instance has no
\* format; else the instance, with format None, and the format, with the
\* resource as root_resource, are saved.
AddRootResource(f, h) ==
    /\ reg.pc = "on"
    /\ reg.mem[h].id # NoResource
    /\ IF reg.mem[h].format = NoFormat
       THEN reg' = [reg EXCEPT !.call = [self |-> f, resource |-> reg.mem[h], error |-> "RootResourceException", saved |-> {}],
                               !.last = "add_root_resource"]
       ELSE reg' = [reg EXCEPT !.mem[h].format = NoFormat,
                               !.format[reg.mem[h].id] = NoFormat,
                               !.root_resource[f] = reg.mem[h].id,
                               !.call = [self |-> f, resource |-> reg.mem[h], error |-> "", saved |-> {"resource", "format"}],
                               !.last = "add_root_resource"]
    /\ UNCHANGED <<pipelineVars, coll, acct>>

\* Two formats without a root resource and two resources, each attached to a
\* format or to none; no instance is loaded.
InitRoot ==
    /\ PipelineIdle
    /\ \E attached \in [Resources -> FormatIds \cup {NoFormat}] :
         reg = [pc |-> "on",
                root_resource |-> [f \in FormatIds |-> NoResource],
                format |-> attached,
                mem |-> [h \in Handles |-> Unloaded],
                call |-> NoCall,
                last |-> ""]
    /\ coll = CollIdle
    /\ acct = AcctIdle

NextRoot ==
    \/ \E h \in Handles, r \in Resources : GetResource(h, r)
    \/ \E h \in Handles, f \in FormatIds : Attach(h, f)
    \/ \E h \in Handles, f \in FormatIds : AddRootResource(f, h)

SpecRoot == InitRoot /\ [][NextRoot]_vars

RootFormats(r) == {f \in FormatIds : reg.root_resource[f] = r}

\* C23: after a call of add_root_resource a resource is the root resource of
\* at most one format, and a resource that is the root resource of a format
\* has no format of its own.
C23_RootOfAtMostOneFormat ==
    reg.last = "add_root_resource" =>
        \A r \in Resources :
            /\ Cardinality(RootFormats(r)) <= 1
            /\ RootFormats(r) # {} => reg.format[r] = NoFormat

\* What does hold after a successful call: the resource passed is the root
\* resource of the format called on and has no format of its own.
C23_CallSetsRoot ==
    (reg.last = "add_root_resource" /\ reg.call.error = "") =>
        /\ reg.root_resource[reg.call.self] = reg.call.resource.id
        /\ reg.format[reg.call.resource.id] = NoFormat

C23_SharedRoot == reg.last = "add_root_resource" /\ \E r \in Resources : Cardinality(RootFormats(r)) = 2

\* C24: add_root_resource called with an instance that has no format raises
\* RootResourceException and saves nothing: the stored rows and the instances
\* are as they were before the call.
C24_NoFormatRaises ==
    [][(reg'.last = "add_root_resource" /\ reg'.call.resource.format = NoFormat) =>
          /\ reg'.call.error = "RootResourceException"
          /\ reg'.call.saved = {}
          /\ reg'.root_resource = reg.root_resource
          /\ reg'.format = reg.format
          /\ reg'.mem = reg.mem]_vars

C24_Witness == reg.last = "add_root_resource" /\ reg.call.error = "RootResourceException" /\ reg.call.resource.format = NoFormat /\ reg.root_resource[reg.call.self] # NoResource

\* ------------------------------------------------------ AssetCollection.save

MaxCollections == 2

\* The values secrets.token_urlsafe(8) returns in the model: one more than
\* there can be rows.
Tokens == {"tok1", "tok2", "tok3"}

\* The urls a caller gives.
GivenUrls == {"unique-collection", "test-collection"}

\* The url of an instance constructed without one.
NoUrl == ""

Users == {"u1", "u2"}

NoUser == "None"

\* user.assetowner_set.first(): the url of the first asset owner of a user;
\* u2 has no asset owner.
FirstOwner(user) == IF user = "u1" THEN [exists |-> TRUE, url |-> "testowner"] ELSE [exists |-> FALSE, url |-> ""]

NoAbsoluteUrl == [user_url |-> "None", collection_url |-> "None"]

\* get_absolute_url: the arguments reverse() is given, or None.
GetAbsoluteUrl(c) == IF ~FirstOwner(c.user).exists THEN NoAbsoluteUrl ELSE [user_url |-> FirstOwner(c.user).url, collection_url |-> c.url]

NoCollection == [id |-> 0, url |-> NoUrl, user |-> NoUser, adding |-> FALSE]

\* A url column without unique=True.
UrlTakenNever(rows, c) == FALSE

\* unique=True on url: another stored row has the url.
UrlTaken(rows, c) == \E row \in rows : row.id # c.id /\ row.url = c.url

\* The row of an instance.
RowOf(c) == [id |-> c.id, url |-> c.url, user |-> c.user]

\* super().save(): the statement raises, or the row is inserted or updated.
\* A null user violates NOT NULL, a url another row has violates unique:
\* both are IntegrityError; db_ok false is an error of another class.
ModelSave(rows, c, db_ok) ==
    IF ~db_ok THEN [error |-> "OperationalError", rows |-> rows]
    ELSE IF c.user = NoUser \/ UrlTaken(rows, c) THEN [error |-> "IntegrityError", rows |-> rows]
    ELSE [error |-> "", rows |-> {row \in rows : row.id # c.id} \cup {RowOf(c)}]

FreeId(rows) == CHOOSE n \in 1..(MaxCollections + 1) : \A row \in rows : row.id # n

\* line 73: the loop is entered for an instance being added or without a
\* url; else the instance is saved as it is (line 84).
EnterSave(c, db_ok) ==
    IF c.adding \/ c.url = NoUrl
    THEN coll' = [coll EXCEPT !.pc = "loop", !.self = c, !.given = c.url, !.before = coll.rows, !.error = "", !.rejected = {}]
    ELSE LET r == ModelSave(coll.rows, c, db_ok) IN
         coll' = [coll EXCEPT !.pc = IF r.error = "" THEN "returned" ELSE "raised",
                              !.self = c, !.given = c.url, !.before = coll.rows, !.error = r.error, !.rejected = {}, !.rows = r.rows]

\* AssetCollection(url=..., user=...).save(): the first save of an instance.
SaveNew(url, user) ==
    /\ coll.pc \in {"idle", "returned", "raised"}
    /\ Cardinality(coll.rows) < MaxCollections
    /\ EnterSave([id |-> FreeId(coll.rows), url |-> url, user |-> user, adding |-> TRUE], TRUE)
    /\ UNCHANGED <<pipelineVars, reg, acct>>

\* A stored collection is loaded, given a url and saved.
SaveStored(row, url, db_ok) ==
    /\ coll.pc \in {"idle", "returned", "raised"}
    /\ row \in coll.rows
    /\ EnterSave([id |-> row.id, url |-> url, user |-> row.user, adding |-> FALSE], db_ok)
    /\ UNCHANGED <<pipelineVars, reg, acct>>

\* An except clause that gives up at the first IntegrityError.
LoopRaisesIntegrityError(token, db_ok) ==
    /\ coll.pc = "loop"
    /\ LET c == [coll.self EXCEPT !.url = token]
           r == ModelSave(coll.rows, c, db_ok)
       IN  coll' = [coll EXCEPT !.self = IF r.error = "" THEN [c EXCEPT !.adding = FALSE] ELSE c,
                                !.error = r.error,
                                !.rejected = IF r.error = "IntegrityError" THEN @ \cup {token} ELSE @,
                                !.rows = r.rows,
                                !.pc = IF r.error = "" THEN "returned" ELSE "raised"]
    /\ UNCHANGED <<pipelineVars, reg, acct>>

\* One turn of `while True` (lines 76-83): a token is generated and the
\* instance saved; IntegrityError starts the next turn, another exception
\* leaves save, success returns.
Loop(token, db_ok) ==
    /\ coll.pc = "loop"
    /\ LET c == [coll.self EXCEPT !.url = token]
           r == ModelSave(coll.rows, c, db_ok)
       IN  coll' = [coll EXCEPT !.self = IF r.error = "" THEN [c EXCEPT !.adding = FALSE] ELSE c,
                                !.error = r.error,
                                !.rejected = IF r.error = "IntegrityError" THEN @ \cup {token} ELSE @,
                                !.rows = r.rows,
                                !.pc = IF r.error = "" THEN "returned" ELSE IF r.error = "IntegrityError" THEN "loop" ELSE "raised"]
    /\ UNCHANGED <<pipelineVars, reg, acct>>

\* A turn of the loop that generates a url no stored row has.
LoopFresh == \E token \in Tokens : Loop(token, TRUE) /\ ~UrlTaken(coll.rows, [coll.self EXCEPT !.url = token])

StoredAtFirst == { {}, {[id |-> 1, url |-> "unique-collection", user |-> "u1"]}, {[id |-> 1, url |-> "tok1", user |-> "u2"]} }

InitColl ==
    /\ PipelineIdle
    /\ reg = RegIdle
    /\ acct = AcctIdle
    /\ \E rows \in StoredAtFirst :
         coll = [pc |-> "idle", rows |-> rows, self |-> NoCollection, given |-> NoUrl, before |-> rows, error |-> "", rejected |-> {}]

NextColl ==
    \/ \E url \in GivenUrls \cup {NoUrl}, user \in Users \cup {NoUser} : SaveNew(url, user)
    \/ \E row \in coll.rows, url \in GivenUrls \cup {NoUrl}, db_ok \in BOOLEAN : SaveStored(row, url, db_ok)
    \/ \E token \in Tokens, db_ok \in BOOLEAN : Loop(token, db_ok)

\* The thread in save is scheduled again, and the generator, which draws
\* from 2^64 values, does not return stored urls for ever.
SpecColl == InitColl /\ [][NextColl]_vars /\ WF_vars(\E token \in Tokens, db_ok \in BOOLEAN : Loop(token, db_ok)) /\ SF_vars(LoopFresh)

UrlsOf(rows) == {row.url : row \in rows}

\* The save of a new instance has ended.
FirstSaveEnded == coll.pc \in {"returned", "raised"} /\ coll.self.id \notin {row.id : row \in coll.before}

\* C25: the first save of a collection whose url is the url of a stored
\* collection fails with an error and stores nothing.
C25_DuplicateUrlFails ==
    (FirstSaveEnded /\ coll.given # NoUrl /\ coll.given \in UrlsOf(coll.before)) =>
        (coll.pc = "raised" /\ coll.rows = coll.before)

\* What the code does with such a collection: it is stored under a generated
\* url, the url given is dropped.
C25_StoredUnderToken ==
    (FirstSaveEnded /\ coll.pc = "returned") =>
        /\ coll.self.url \in Tokens
        /\ coll.rows = coll.before \cup {RowOf(coll.self)}

\* C26: a collection created with url U has url U after its first save, and
\* get_absolute_url of a user whose first asset owner has url O gives (O, U).
C26_GivenUrlKept ==
    (FirstSaveEnded /\ coll.pc = "returned" /\ coll.given # NoUrl) =>
        /\ coll.self.url = coll.given
        /\ FirstOwner(coll.self.user).exists => GetAbsoluteUrl(coll.self) = [user_url |-> FirstOwner(coll.self.user).url, collection_url |-> coll.given]

\* C27: after save returns for a collection saved without a url the
\* collection has a url that is not empty, stored with it, and no two stored
\* collections ever have the same url.
C27_GeneratedUrlsUnique ==
    /\ (coll.pc = "returned" /\ coll.given = NoUrl) => (coll.self.url # NoUrl /\ RowOf(coll.self) \in coll.rows)
    /\ \A a, b \in coll.rows : a.url = b.url => a = b

C27_Witness ==
    /\ coll.pc = "returned" /\ coll.given = NoUrl
    /\ Cardinality(coll.rows) = 2
    /\ Cardinality(coll.before) = 1
    /\ coll.rejected = UrlsOf(coll.before)
    /\ coll.rejected # {}
    /\ coll.self.url \notin coll.rejected

\* C30: in the loop of save every IntegrityError starts another turn with a
\* generated url; the loop is left only by a successful save or by an
\* exception that is not an IntegrityError.  For an instance whose only
\* IntegrityError is a url collision save ends; for an instance with another
\* cause of IntegrityError (no user) save never returns and never raises an
\* IntegrityError.
C30_RetriesOnIntegrityError ==
    /\ [][coll.pc = "loop" =>
            /\ coll'.self.url \in Tokens
            /\ coll'.error = "IntegrityError" => (coll'.pc = "loop" /\ coll'.rows = coll.rows)
            /\ coll'.pc = "returned" => (coll'.error = "" /\ RowOf(coll'.self) \in coll'.rows)
            /\ coll'.pc = "raised" => coll'.error \notin {"", "IntegrityError"}
            /\ coll.self.user = NoUser => coll'.pc # "returned"]_vars
    /\ (coll.pc = "loop" /\ coll.self.user # NoUser) ~> (coll.pc \in {"returned", "raised"})

C30_Witness == coll.pc = "loop" /\ coll.error = "IntegrityError" /\ coll.self.user # NoUser /\ coll.self.url \in UrlsOf(coll.rows)

C30_NoUserLoops == coll.pc = "loop" /\ coll.error = "IntegrityError" /\ coll.self.user = NoUser /\ coll.self.url \notin UrlsOf(coll.rows)

\* ------------------------------------------------------------ user.delete()

MaxRows == 2

RowIds == 1..MaxRows

\* on_delete of the foreign keys to the user model.
DeviceCodeOnDelete == "CASCADE"

\* An AssetOwner.django_user declared with on_delete=models.CASCADE.
OwnerOnDeleteCascade == "CASCADE"

OwnerOnDelete == "SET_NULL"

CollectionOnDelete == "CASCADE"

LikeOnDelete == "CASCADE"

\* What deleting `user` does to the rows of a table whose foreign key
\* `user` is declared with the rule on_delete.
Collect(rows, user, on_delete) ==
    IF on_delete = "CASCADE" THEN {row \in rows : row.user # user}
    ELSE IF on_delete = "SET_NULL" THEN {IF row.user = user THEN [row EXCEPT !.user = NoUser] ELSE row : row \in rows}
    ELSE rows

\* The same for AssetOwner, whose foreign key is django_user.
CollectOwners(rows, user, on_delete) ==
    IF on_delete = "CASCADE" THEN {row \in rows : row.django_user # user}
    ELSE IF on_delete = "SET_NULL" THEN {IF row.django_user = user THEN [row EXCEPT !.django_user = NoUser] ELSE row : row \in rows}
    ELSE rows

NoDelete == [op |-> "", user |-> NoUser, owners |-> {}, devicecodes |-> {}]

\* DeviceCode.objects.create(user=...)
CreateDeviceCode(id, user) ==
    /\ acct.pc = "on"
    /\ user \in acct.users
    /\ \A row \in acct.devicecodes : row.id # id
    /\ acct' = [acct EXCEPT !.devicecodes = @ \cup {[id |-> id, user |-> user]}, !.last = NoDelete]
    /\ UNCHANGED <<pipelineVars, reg, coll>>

\* AssetOwner.objects.create(django_user=...), with a user or with none.
CreateOwner(id, user) ==
    /\ acct.pc = "on"
    /\ user \in acct.users \cup {NoUser}
    /\ \A row \in acct.owners : row.id # id
    /\ acct' = [acct EXCEPT !.owners = @ \cup {[id |-> id, django_user |-> user]}, !.last = NoDelete]
    /\ UNCHANGED <<pipelineVars, reg, coll>>

\* One AssetCollection and one UserLike of a user.
CreateCollectionAndLike(user) ==
    /\ acct.pc = "on"
    /\ user \in acct.users
    /\ acct.collections = {} /\ acct.likes = {}
    /\ acct' = [acct EXCEPT !.collections = {[id |-> 1, user |-> user]}, !.likes = {[id |-> 1, user |-> user]}, !.last = NoDelete]
    /\ UNCHANGED <<pipelineVars, reg, coll>>

\* user.delete(): the rows that refer to the user are deleted or updated as
\* their on_delete says, then the user is deleted.
DeleteUser(user) ==
    /\ acct.pc = "on"
    /\ user \in acct.users
    /\ acct' = [acct EXCEPT !.users = @ \ {user},
                            !.devicecodes = Collect(@, user, DeviceCodeOnDelete),
                            !.owners = CollectOwners(@, user, OwnerOnDelete),
                            !.collections = Collect(@, user, CollectionOnDelete),
                            !.likes = Collect(@, user, LikeOnDelete),
                            !.last = [op |-> "delete", user |-> user, owners |-> acct.owners, devicecodes |-> acct.devicecodes]]
    /\ UNCHANGED <<pipelineVars, reg, coll>>

InitUser ==
    /\ PipelineIdle
    /\ reg = RegIdle
    /\ coll = CollIdle
    /\ acct = [pc |-> "on", users |-> Users, devicecodes |-> {}, owners |-> {}, collections |-> {}, likes |-> {}, last |-> NoDelete]

NextUser ==
    \/ \E id \in RowIds, user \in Users : CreateDeviceCode(id, user)
    \/ \E id \in RowIds, user \in Users \cup {NoUser} : CreateOwner(id, user)
    \/ \E user \in Users : CreateCollectionAndLike(user)
    \/ \E user \in Users : DeleteUser(user)

SpecUser == InitUser /\ [][NextUser]_vars

====
